---- MODULE Spec2Model ----
(***************************************************************************)
(* Booking application backend: the services and bookings collections, the *)
(* repositories that query them and the route handlers that map repository *)
(* outcomes to HTTP status codes.                                          *)
(*                                                                         *)
(* Every request runs as a coroutine that is suspended only at a store     *)
(* call, so a handler is a sequence of atomic steps, one per store call    *)
(* (plus the reading of the clock in update).  rq[p] is the request that   *)
(* coroutine p is running, or the outcome of its last request.             *)
(***************************************************************************)
EXTENDS Integers, Sequences, FiniteSets, TLC

VARIABLES
    phase,      \* startup: "boot", "connected", "serving"
    nameIndex,  \* the unique index on services.name exists
    ensured,    \* per repository: how often its ensure_indexes has run
    services,   \* the services collection: ObjectId -> stored document
    bookings,   \* the bookings collection: value of _id -> stored document
    now,        \* the clock, in milliseconds (the resolution of a stored date)
    nextId,     \* the next ObjectId that PyObjectId() generates
    rq          \* per coroutine: the request in flight or its outcome

vars == <<phase, nameIndex, ensured, services, bookings, now, nextId, rq>>

\* ------------------------------------------------------------------ bounds
MaxIds == 2
MaxTime == 1

Procs == {1, 2}

\* ------------------------------------------------------------ identifiers
\* The 24-character hexadecimal rendering of the ObjectIds a run generates.
OidHex ==
    <<"000000000000000000000001", "000000000000000000000002",
      "000000000000000000000003", "000000000000000000000004">>

Oids == 1..Len(OidHex)

\* A path parameter that bson.ObjectId rejects (a path parameter is never empty).
MalformedIds == {"not-an-object-id"}

IsValidOid(s) == \E i \in Oids : OidHex[i] = s

\* ObjectId(s) of a string the constructor accepts.
ParseOid(s) == CHOOSE i \in Oids : OidHex[i] = s

\* BSON tells an ObjectId from the string that spells it, and a query for the
\* one does not match the other.  Where an identifier is held or stored, the
\* ObjectId number i is written i and the 24-digit string of it is written -i.
\* DumpId is the identifier as model_dump() yields it: PyObjectId serializes
\* with str.
DumpId(i) == IF i < 0 THEN i ELSE 0 - i

\* PyObjectId(v) of an ObjectId or of the string of one.
PyObjectId(v) == IF v < 0 THEN 0 - v ELSE v

\* isinstance(v, ObjectId)
IsObjectId(v) == v > 0

\* str(v) of an ObjectId or of the string of one.
OidStr(i) == OidHex[PyObjectId(i)]

\* The id strings a client sends.
IdInputs == {OidHex[i] : i \in 1..MaxIds} \cup MalformedIds

\* Python's None.
NONE == "<None>"

\* ------------------------------------------------------------- timestamps
\* A datetime in memory: its instant and whether it carries a tzinfo.
UtcNowAware(t) == [ms |-> t, aware |-> TRUE]
UtcNowNaive(t) == [ms |-> t, aware |-> FALSE]

\* A conversion that takes a naive datetime for local time, east of UTC.
FromLocalTime(dt) == [ms |-> IF dt.aware THEN dt.ms ELSE dt.ms - 1, aware |-> TRUE]

\* to_mongo: a naive datetime is given tzinfo UTC, an aware one is kept.
EnsureAware(dt) == [ms |-> dt.ms, aware |-> TRUE]

DateKeys == {"created_at", "updated_at", "booking_time", "date"}

\* The driver stores a datetime as its UTC instant in milliseconds and reads
\* it back as a naive datetime (the client is built without tz_aware).
BsonEncode(doc) ==
    [k \in DOMAIN doc |-> IF k \in DateKeys THEN doc[k].ms ELSE doc[k]]

BsonDecode(doc) ==
    [k \in DOMAIN doc |-> IF k \in DateKeys THEN UtcNowNaive(doc[k]) ELSE doc[k]]

\* ------------------------------------------------------------------ store
FindOne(coll, oid) == IF oid \in DOMAIN coll THEN <<BsonDecode(coll[oid])>> ELSE <<>>

InsertOne(coll, doc) ==
    [i \in DOMAIN coll \cup {doc["_id"]} |->
        IF i = doc["_id"] THEN BsonEncode(doc) ELSE coll[i]]

\* {"$set": data} applied to one document: the named fields are written, the
\* others are kept.
SetFields(doc, data) ==
    [k \in DOMAIN doc \cup DOMAIN data |->
        IF k \in DOMAIN data THEN data[k] ELSE doc[k]]

\* A write that stores nothing.
UpdateNothing(coll, oid, data) == coll

\* A write of the whole schema: a price or a duration that is not given is
\* written as zero.
UpdateOneResetting(coll, oid, data) ==
    IF oid \in DOMAIN coll
    THEN LET doc == SetFields(coll[oid], BsonEncode(data))
         IN [coll EXCEPT ![oid] =
               [k \in DOMAIN doc |->
                  IF k \in {"price", "duration"} \ DOMAIN data THEN 0 ELSE doc[k]]]
    ELSE coll

\* A write with upsert: when no document matches, one is inserted.
UpsertOne(coll, oid, data) ==
    IF oid \in DOMAIN coll
    THEN [coll EXCEPT ![oid] = SetFields(@, BsonEncode(data))]
    ELSE [i \in DOMAIN coll \cup {oid} |->
            IF i = oid
            THEN SetFields([k \in {"_id", "name"} |-> IF k = "_id" THEN oid ELSE ""],
                           BsonEncode(data))
            ELSE coll[i]]

UpdateOne(coll, oid, data) ==
    IF oid \in DOMAIN coll
    THEN [coll EXCEPT ![oid] = SetFields(@, BsonEncode(data))]
    ELSE coll

\* result.modified_count: 1 when the matched document changed.
ModifiedCount(coll, oid, data) ==
    IF oid \in DOMAIN coll /\ SetFields(coll[oid], BsonEncode(data)) # coll[oid]
    THEN 1 ELSE 0

\* A delete whose filter matches every document.
DeleteMany(coll, oid) == [i \in {} |-> coll[i]]

DeleteOne(coll, oid) == [i \in DOMAIN coll \ {oid} |-> coll[i]]

\* result.deleted_count
DeletedCount(coll, oid) == IF oid \in DOMAIN coll THEN 1 ELSE 0

\* A uniqueness check that inserts alone are subject to.
DuplicateNameOnInsert(coll, oid, name) ==
    /\ oid \notin DOMAIN coll
    /\ nameIndex
    /\ \E i \in DOMAIN coll : coll[i]["name"] = name

\* The unique index on name rejects a document whose name another document has.
DuplicateName(coll, oid, name) ==
    nameIndex /\ \E i \in DOMAIN coll : i # oid /\ coll[i]["name"] = name

\* ------------------------------------------------------------ list queries
\* The collation order of the strings the model uses (sort compares strings).
StrOrder == <<"", "Alice", "Bob", "Haircut", "Massage", "Relaxing",
              "canceled", "completed", "confirmed", "hair", "pending", "spa">>

StrRank(s) == CHOOSE i \in 1..Len(StrOrder) : StrOrder[i] = s

IntFields == {"_id", "price", "duration", "service_id"} \cup DateKeys

\* The sort key of a document: a missing field sorts as null, before any value.
SortKey(doc, field) ==
    IF field \notin DOMAIN doc THEN -1
    ELSE IF field \in IntFields THEN doc[field]
    ELSE StrRank(doc[field])

\* A condition that every stored value satisfies.
HoldsAlways(cond, v) == TRUE

\* One condition of a query filter on a stored value.
Holds(cond, v) ==
    CASE cond.op = "eq" -> v = cond.v
      [] cond.op = "range" ->
            /\ \A i \in 1..Len(cond.gte) : v >= cond.gte[i]
            /\ \A i \in 1..Len(cond.lte) : v <= cond.lte[i]

\* A document matches when every filtered field is present and satisfies its
\* condition.
Matches(doc, filter) ==
    \A k \in DOMAIN filter : k \in DOMAIN doc /\ Holds(filter[k], doc[k])

CountDocuments(coll, filter) ==
    Cardinality({i \in DOMAIN coll : Matches(coll[i], filter)})

Min(a, b) == IF a <= b THEN a ELSE b

\* A cursor that skips and never limits.
PageUnlimited(s, skip, limit) == SubSeq(s, skip + 1, Len(s))

\* cursor.skip(skip).limit(limit) of an ordered result; limit 0 is no limit.
Page(s, skip, limit) ==
    IF limit = 0 THEN SubSeq(s, skip + 1, Len(s))
    ELSE SubSeq(s, skip + 1, Min(Len(s), skip + limit))

\* find(filter).sort(field, dir).skip(skip).limit(limit): the pages the store
\* may return; documents with equal sort keys come in any order.
Find(coll, filter, field, dir, skip, limit) ==
    LET ids == {i \in DOMAIN coll : Matches(coll[i], filter)}
        n == Cardinality(ids)
        orders == {s \in [1..n -> ids] :
                     /\ \A i, j \in 1..n : i # j => s[i] # s[j]
                     /\ \A i, j \in 1..n : i < j =>
                          dir * SortKey(coll[s[i]], field)
                            <= dir * SortKey(coll[s[j]], field)}
    IN {Page([i \in 1..n |-> BsonDecode(coll[s[i]])], skip, limit) : s \in orders}

\* ---------------------------------------------------------- Service model
Opt(data, k) == IF k \in DOMAIN data THEN data[k] ELSE NONE

\* Service(**data): the id is data's or a fresh PyObjectId(), the timestamps
\* data's or now, an optional field that is not given is None.
ServiceInit(data, fresh, t) ==
    [id |-> IF "id" \in DOMAIN data THEN data["id"] ELSE fresh,
     name |-> data["name"],
     description |-> Opt(data, "description"),
     price |-> data["price"],
     duration |-> data["duration"],
     category |-> Opt(data, "category"),
     created_at |-> IF "created_at" \in DOMAIN data THEN data["created_at"]
                    ELSE UtcNowAware(t),
     updated_at |-> IF "updated_at" \in DOMAIN data THEN data["updated_at"]
                    ELSE UtcNowAware(t)]

\* A dump that leaves out the empty strings with the Nones.
ServiceToMongoExcludeEmpty(e) ==
    LET keys == {"_id", "name", "price", "duration", "created_at", "updated_at"}
                \cup {k \in {"description", "category"} : e[k] \notin {NONE, ""}}
    IN [k \in keys |->
          CASE k = "_id" -> e.id
            [] k \in {"created_at", "updated_at"} -> EnsureAware(e[k])
            [] OTHER -> e[k]]

\* model_dump(by_alias=True, exclude_none=True): the id under "_id" as a
\* string, which to_mongo makes an ObjectId; the fields that are None left out;
\* the timestamps made timezone-aware.
ServiceToMongo(e) ==
    LET keys == {"_id", "name", "price", "duration", "created_at", "updated_at"}
                \cup {k \in {"description", "category"} : e[k] # NONE}
    IN [k \in keys |->
          CASE k = "_id" -> PyObjectId(DumpId(e.id))
            [] k \in {"created_at", "updated_at"} -> EnsureAware(e[k])
            [] OTHER -> e[k]]

\* from_mongo: "_id" becomes "id", then Service(**data); keys that are no field
\* of the model are ignored.
ServiceFromMongo(doc, t) ==
    LET data == [k \in (DOMAIN doc \ {"_id"}) \cup {"id"} |->
                    IF k = "id" THEN doc["_id"] ELSE doc[k]]
    IN ServiceInit(data, 0, t)

\* ------------------------------------------------------------- coroutines
\* A coroutine with no request yet.
Idle ==
    [op |-> "idle", pc |-> "done", via |-> "", id |-> "", data |-> <<>>,
     q |-> <<>>, ret |-> "", body |-> <<>>, total |-> 0, calls |-> 0]

\* The outcome of a finished request: what the repository method returned or
\* raised (ret), the entities it returned (body), and the number of calls it
\* made to the store (calls).
Done(op, via, id, data, ret, body, calls) ==
    [op |-> op, pc |-> "done", via |-> via, id |-> id, data |-> data,
     q |-> <<>>, ret |-> ret, body |-> body, total |-> 0, calls |-> calls]

Ready(p) == phase = "serving" /\ rq[p].pc = "done"

\* The status code the route handler answers with.
HttpStatus(r) ==
    CASE r.ret = "http400" -> 400
      [] r.ret = "http409" -> 409
      [] r.ret = "http422" -> 422
      [] r.ret \in {"TypeError", "ValidationError"} -> 500
      [] r.ret \in {"none", "false"} -> 404
      [] r.ret = "true" -> 204
      [] r.ret = "entity" /\ r.op \in {"create_service", "create_booking"} -> 201
      [] OTHER -> 200

\* ---------------------------------------------------------------- startup
connect_to_mongodb ==
    /\ phase = "boot"
    /\ phase' = "connected"
    /\ UNCHANGED <<nameIndex, ensured, services, bookings, now, nextId, rq>>

\* The repositories of the application; each has an ensure_indexes.
Repositories == {"ServiceRepository", "BookingRepository"}

\* An index on name that is not unique.
PlainNameIndex == FALSE

\* ServiceRepository.ensure_indexes: create_index("name", unique=True).
UniqueNameIndex == TRUE

\* The startup handler of main.py: it builds a ServiceRepository and awaits
\* its ensure_indexes; no other repository is built.
init_repositories ==
    /\ phase = "connected"
    /\ phase' = "serving"
    /\ nameIndex' = UniqueNameIndex
    /\ ensured' = [ensured EXCEPT !["ServiceRepository"] = @ + 1]
    /\ UNCHANGED <<services, bookings, now, nextId, rq>>

\* A millisecond passes.
Tick ==
    /\ now < MaxTime
    /\ now' = now + 1
    /\ UNCHANGED <<phase, nameIndex, ensured, services, bookings, nextId, rq>>

\* ------------------------------------------------------ ServiceRepository
\* ServiceCreate.model_dump(): every field of the schema, description "" and
\* category None when the client leaves them out.  Prices are in cents.
ServicePayloads ==
    { [name |-> "Haircut", description |-> "", duration |-> 30,
       price |-> 2550, category |-> NONE],
      [name |-> "Massage", description |-> "Relaxing", duration |-> 60,
       price |-> 8000, category |-> "spa"] }

create_service(p, payload) ==
    /\ Ready(p)
    /\ nextId <= MaxIds
    /\   LET service == ServiceInit(payload, nextId, now)
             doc == ServiceToMongo(service)
         IN IF DuplicateName(services, doc["_id"], doc["name"])
            THEN /\ services' = services
                 /\ rq' = [rq EXCEPT ![p] =
                        Done("create_service", "route", "", payload, "http409", <<>>, 1)]
            ELSE /\ services' = InsertOne(services, doc)
                 /\ rq' = [rq EXCEPT ![p] =
                        Done("create_service", "route", "", payload, "entity",
                             <<[service EXCEPT !.id = doc["_id"]]>>, 1)]
    /\ nextId' = nextId + 1
    /\ UNCHANGED <<phase, nameIndex, ensured, bookings, now>>

\* ServiceRepository.get_service as a function of the collection.
GetService(coll, id, t) ==
    IF ~IsValidOid(id) THEN [ret |-> "http400", body |-> <<>>, calls |-> 0]
    ELSE LET document == FindOne(coll, ParseOid(id))
         IN IF Len(document) > 0
            THEN [ret |-> "entity", body |-> <<ServiceFromMongo(document[1], t)>>,
                  calls |-> 1]
            ELSE [ret |-> "none", body |-> <<>>, calls |-> 1]

get_service(p, id) ==
    /\ Ready(p)
    /\   LET r == GetService(services, id, now)
         IN rq' = [rq EXCEPT ![p] =
                Done("get_service", "route", id, <<>>, r.ret, r.body, r.calls)]
    /\ UNCHANGED <<phase, nameIndex, ensured, services, bookings, now, nextId>>

\* A delete that removes the bookings of the service with it.
delete_service_cascade(p, id) ==
    /\ Ready(p)
    /\ IsValidOid(id)
    /\ services' = DeleteOne(services, ParseOid(id))
    /\ bookings' = [i \in {j \in DOMAIN bookings :
                             bookings[j]["service_id"] # ParseOid(id)} |->
                      bookings[i]]
    /\ rq' = [rq EXCEPT ![p] =
             Done("delete_service", "route", id, <<>>,
                  IF DeletedCount(services, ParseOid(id)) > 0
                  THEN "true" ELSE "false", <<>>, 1)]
    /\ UNCHANGED <<phase, nameIndex, ensured, now, nextId>>

delete_service(p, id) ==
    /\ Ready(p)
    /\   IF ~IsValidOid(id)
         THEN /\ services' = services
              /\ rq' = [rq EXCEPT ![p] =
                     Done("delete_service", "route", id, <<>>, "http400", <<>>, 0)]
         ELSE /\ services' = DeleteOne(services, ParseOid(id))
              /\ rq' = [rq EXCEPT ![p] =
                     Done("delete_service", "route", id, <<>>,
                          IF DeletedCount(services, ParseOid(id)) > 0
                          THEN "true" ELSE "false", <<>>, 1)]
    /\ UNCHANGED <<phase, nameIndex, ensured, bookings, now, nextId>>

\* Python's truth value of an optional string: None and "" are false.
Truthy(v) == v # NONE /\ v # ""

\* The pages clients ask for: skip >= 0 and 1 <= limit <= 500 in the routes.
Skips == {0, 1}
Limits == {1, 2}

ServiceListQueries ==
    [skip : Skips, limit : Limits, sort_by : {"name"},
     sort_direction : {1, -1}, category : {NONE, "", "spa"}]

\* query_filter of list_services.
ServiceFilter(category) ==
    IF Truthy(category)
    THEN [k \in {"category"} |-> [op |-> "eq", v |-> category]]
    ELSE <<>>

\* count_documents, the first store call of list_services.
list_services_count(p, q) ==
    /\ Ready(p)
    /\   rq' = [rq EXCEPT ![p] =
                 [op |-> "list_services", pc |-> "find", via |-> "route",
                  id |-> "", data |-> <<>>, q |-> q, ret |-> "", body |-> <<>>,
                  total |-> CountDocuments(services, ServiceFilter(q.category)),
                  calls |-> 1]]
    /\ UNCHANGED <<phase, nameIndex, ensured, services, bookings, now, nextId>>

\* find, sort, skip, limit: the second store call of list_services.
list_services_find(p) ==
    /\ phase = "serving"
    /\ rq[p].op = "list_services" /\ rq[p].pc = "find"
    /\ LET q == rq[p].q
       IN \E page \in Find(services, ServiceFilter(q.category), q.sort_by,
                           q.sort_direction, q.skip, q.limit) :
            rq' = [rq EXCEPT ![p] =
                    [@ EXCEPT !.pc = "done", !.ret = "list", !.calls = @ + 1,
                       !.body = [i \in 1..Len(page) |->
                                    ServiceFromMongo(page[i], now)]]]
    /\ UNCHANGED <<phase, nameIndex, ensured, services, bookings, now, nextId>>

\* The fields of ServiceUpdate, in the order the schema declares and
\* validates them.
ServiceUpdateFields == <<"name", "description", "duration", "price", "category">>

StrFields == {"name", "description", "category", "customer_name", "user_id",
              "status", "notes"}

\* The value the schema holds for a field: the client's, or the default None.
IsNoneField(payload, k) ==
    k \notin DOMAIN payload \/ (k \in StrFields /\ payload[k] = NONE)

\* check_at_least_one_field, run for the i-th field when the client supplies
\* it: info.data holds the fields validated before it (the supplied values and
\* the defaults), and the validator raises when all of them are None.
CheckAtLeastOneField(fields, payload, i) ==
    ~(\A j \in 1..(i - 1) : IsNoneField(payload, fields[j]))

\* Validation of an update schema: the validators of the supplied fields.
UpdateSchemaValid(fields, payload) ==
    \A i \in 1..Len(fields) :
        fields[i] \in DOMAIN payload => CheckAtLeastOneField(fields, payload, i)

\* The route's update_data: model_dump() without the fields that are None.
DropNone(payload) ==
    [k \in {f \in DOMAIN payload : ~IsNoneField(payload, f)} |-> payload[k]]

\* The bodies clients send to PUT /services/{id}.
ServiceUpdatePayloads ==
    { <<>>,
      [k \in {"price"} |-> 3000],
      [k \in {"name"} |-> "Massage"],
      [k \in {"category", "description"} |->
          IF k = "category" THEN "spa" ELSE "Relaxing"] }

\* The dictionaries callers of the repository pass to update_service.
ServiceUpdateData == ServiceUpdatePayloads \ {<<>>}

\* update_service up to its first store call, the get_service of the current
\* document.
ServiceUpdateBegin(p, via, id, data) ==
    /\ services' = services
    /\ IF ~IsValidOid(id)
       THEN rq' = [rq EXCEPT ![p] =
                    Done("update_service", via, id, data, "http400", <<>>, 0)]
       ELSE LET current_service == GetService(services, id, now)
            IN IF current_service.ret = "none"
               THEN rq' = [rq EXCEPT ![p] =
                            Done("update_service", via, id, data, "none", <<>>, 1)]
               ELSE rq' = [rq EXCEPT ![p] =
                            [op |-> "update_service", pc |-> "stamp", via |-> via,
                             id |-> id, data |-> data, q |-> <<>>, ret |-> "",
                             body |-> <<>>, total |-> 0, calls |-> 1]]

\* A caller of the repository (a test, another module) updates a service.
update_service(p, id, data) ==
    /\ Ready(p)
    /\ ServiceUpdateBegin(p, "repo", id, data)
    /\ UNCHANGED <<phase, nameIndex, ensured, bookings, now, nextId>>

\* PUT /services/{id}: the body is validated as a ServiceUpdate, then the
\* route calls the repository with the fields that are not None.
route_update_service(p, id, payload) ==
    /\ Ready(p)
    /\   IF UpdateSchemaValid(ServiceUpdateFields, payload)
         THEN ServiceUpdateBegin(p, "route", id, DropNone(payload))
         ELSE /\ services' = services
              /\ rq' = [rq EXCEPT ![p] =
                     Done("update_service", "route", id, payload, "http422", <<>>, 0)]
    /\ UNCHANGED <<phase, nameIndex, ensured, bookings, now, nextId>>

\* update_data["updated_at"] = datetime.utcnow()
update_service_stamp(p) ==
    /\ phase = "serving"
    /\ rq[p].op = "update_service" /\ rq[p].pc = "stamp"
    /\ rq' = [rq EXCEPT ![p] =
               [@ EXCEPT !.pc = "write",
                  !.data = SetFields(@, [k \in {"updated_at"} |-> UtcNowNaive(now)])]]
    /\ UNCHANGED <<phase, nameIndex, ensured, services, bookings, now, nextId>>

\* update_one({"_id": object_id}, {"$set": update_data})
update_service_write(p) ==
    /\ phase = "serving"
    /\ rq[p].op = "update_service" /\ rq[p].pc = "write"
    /\ LET r == rq[p]
           object_id == ParseOid(r.id)
       IN IF /\ object_id \in DOMAIN services
             /\ "name" \in DOMAIN r.data
             /\ DuplicateName(services, object_id, r.data["name"])
          THEN /\ services' = services
               /\ rq' = [rq EXCEPT ![p] =
                      Done(r.op, r.via, r.id, r.data, "http409", <<>>, r.calls + 1)]
          ELSE /\ services' = UpdateOne(services, object_id, r.data)
               /\ IF ModifiedCount(services, object_id, r.data) = 0
                  THEN rq' = [rq EXCEPT ![p] =
                               Done(r.op, r.via, r.id, r.data, "none", <<>>, r.calls + 1)]
                  ELSE rq' = [rq EXCEPT ![p] = [@ EXCEPT !.pc = "reread", !.calls = @ + 1]]
    /\ UNCHANGED <<phase, nameIndex, ensured, bookings, now, nextId>>

\* return await self.get_service(service_id)
update_service_reread(p) ==
    /\ phase = "serving"
    /\ rq[p].op = "update_service" /\ rq[p].pc = "reread"
    /\ LET r == rq[p]
           got == GetService(services, r.id, now)
       IN rq' = [rq EXCEPT ![p] = Done(r.op, r.via, r.id, r.data, got.ret, got.body,
                                           r.calls + got.calls)]
    /\ UNCHANGED <<phase, nameIndex, ensured, services, bookings, now, nextId>>

\* ---------------------------------------------------------- Booking model
BookingRequired == {"user_id", "service_id", "booking_time"}

\* Booking(**data) raises a ValidationError when a required field is missing.
BookingValid(data) == BookingRequired \subseteq DOMAIN data

\* Booking(**data): keys that are no field of the model are ignored.
BookingInit(data, fresh, t) ==
    [id |-> IF "id" \in DOMAIN data THEN PyObjectId(data["id"]) ELSE fresh,
     user_id |-> data["user_id"],
     service_id |-> data["service_id"],
     booking_time |-> data["booking_time"],
     status |-> IF "status" \in DOMAIN data THEN data["status"] ELSE "confirmed",
     notes |-> Opt(data, "notes"),
     created_at |-> IF "created_at" \in DOMAIN data THEN data["created_at"]
                    ELSE UtcNowAware(t),
     updated_at |-> IF "updated_at" \in DOMAIN data THEN data["updated_at"]
                    ELSE UtcNowAware(t)]

\* to_mongo: model_dump(by_alias=True, exclude_none=True) yields the id and
\* the service_id as strings; the string service_id is made an ObjectId, the
\* "_id" is made one only if it is a PyObjectId, which a dumped id is not;
\* the timestamps are made timezone-aware.
BookingToMongo(e) ==
    LET keys == {"_id", "user_id", "service_id", "booking_time", "status",
                 "created_at", "updated_at"}
                \cup {k \in {"notes"} : e[k] # NONE}
    IN [k \in keys |->
          CASE k = "_id" -> DumpId(e.id)
            [] k = "service_id" -> PyObjectId(DumpId(e.service_id))
            [] k \in {"created_at", "updated_at", "booking_time"} -> EnsureAware(e[k])
            [] OTHER -> e[k]]

\* from_mongo of a document that was found.
BookingFromMongo(doc, t) ==
    LET data == [k \in (DOMAIN doc \ {"_id"}) \cup {"id"} |->
                    IF k = "id" THEN doc["_id"] ELSE doc[k]]
    IN BookingInit(data, 0, t)

\* ------------------------------------------------------ BookingRepository
\* What callers pass to create_booking: the fields of the Booking model, as
\* the repository's tests do, or BookingCreate.model_dump(), as the route does.
BookingPayloads ==
    { [user_id |-> "Alice", service_id |-> 1, booking_time |-> UtcNowAware(10),
       status |-> "pending"],
      [user_id |-> "Bob", service_id |-> 2, booking_time |-> UtcNowAware(20),
       status |-> "confirmed"],
      [customer_name |-> "Alice", service_id |-> 1, date |-> UtcNowNaive(10),
       status |-> "pending"] }

create_booking(p, payload) ==
    /\ Ready(p)
    /\ nextId <= MaxIds
    /\   IF ~BookingValid(payload)
         THEN /\ bookings' = bookings
              /\ nextId' = nextId
              /\ rq' = [rq EXCEPT ![p] =
                     Done("create_booking", "route", "", payload,
                          "ValidationError", <<>>, 0)]
         ELSE LET booking == BookingInit(payload, nextId, now)
                  doc == BookingToMongo(booking)
              IN /\ bookings' = InsertOne(bookings, doc)
                 /\ nextId' = nextId + 1
                 /\ rq' = [rq EXCEPT ![p] =
                        Done("create_booking", "repo", "", payload, "entity",
                             <<[booking EXCEPT !.id = doc["_id"]]>>, 1)]
    /\ UNCHANGED <<phase, nameIndex, ensured, services, now>>

\* BookingRepository.get_booking as a function of the collection: from_mongo
\* is applied to whatever find_one returns, and fails on None.
GetBooking(coll, id, t) ==
    IF ~IsValidOid(id) THEN [ret |-> "http400", body |-> <<>>, calls |-> 0]
    ELSE LET document == FindOne(coll, ParseOid(id))
         IN IF Len(document) > 0
            THEN [ret |-> "entity", body |-> <<BookingFromMongo(document[1], t)>>,
                  calls |-> 1]
            ELSE [ret |-> "TypeError", body |-> <<>>, calls |-> 1]

get_booking(p, id) ==
    /\ Ready(p)
    /\   LET r == GetBooking(bookings, id, now)
         IN rq' = [rq EXCEPT ![p] =
                Done("get_booking", "route", id, <<>>, r.ret, r.body, r.calls)]
    /\ UNCHANGED <<phase, nameIndex, ensured, services, bookings, now, nextId>>

delete_booking(p, id) ==
    /\ Ready(p)
    /\   IF ~IsValidOid(id)
         THEN /\ bookings' = bookings
              /\ rq' = [rq EXCEPT ![p] =
                     Done("delete_booking", "route", id, <<>>, "http400", <<>>, 0)]
         ELSE /\ bookings' = DeleteOne(bookings, ParseOid(id))
              /\ rq' = [rq EXCEPT ![p] =
                     Done("delete_booking", "route", id, <<>>,
                          IF DeletedCount(bookings, ParseOid(id)) > 0
                          THEN "true" ELSE "false", <<>>, 1)]
    /\ UNCHANGED <<phase, nameIndex, ensured, services, now, nextId>>

\* The filters of list_bookings; an optional datetime is <<>> or <<ms>>.
\* customer_name is never given.
BookingFilters ==
    { [status_filter |-> NONE, date_from |-> <<>>, date_to |-> <<>>, service_id |-> NONE],
      [status_filter |-> "pending", date_from |-> <<>>, date_to |-> <<>>, service_id |-> NONE],
      [status_filter |-> NONE, date_from |-> <<10>>, date_to |-> <<20>>, service_id |-> NONE],
      [status_filter |-> NONE, date_from |-> <<>>, date_to |-> <<>>, service_id |-> OidHex[1]],
      [status_filter |-> NONE, date_from |-> <<>>, date_to |-> <<>>, service_id |-> ""],
      [status_filter |-> NONE, date_from |-> <<>>, date_to |-> <<>>,
       service_id |-> "not-an-object-id"] }

BookingListQueries ==
    {[skip |-> k, limit |-> n, sort_by |-> "booking_time", sort_direction |-> 1,
      filter |-> f] :
        k \in Skips, n \in Limits, f \in BookingFilters}

\* filter_query of list_bookings, for a service_id that is absent or valid.
BookingFilter(f) ==
    LET keys == {k \in {"status"} : Truthy(f.status_filter)}
                \cup {k \in {"date"} : Len(f.date_from) + Len(f.date_to) > 0}
                \cup {k \in {"service_id"} : Truthy(f.service_id)}
    IN [k \in keys |->
          CASE k = "status" -> [op |-> "eq", v |-> f.status_filter]
            [] k = "date" -> [op |-> "range", gte |-> f.date_from, lte |-> f.date_to]
            [] k = "service_id" -> [op |-> "eq", v |-> ParseOid(f.service_id)]]

\* list_bookings up to count_documents, its first store call.
list_bookings_count(p, q) ==
    /\ Ready(p)
    /\   IF Truthy(q.filter.service_id) /\ ~IsValidOid(q.filter.service_id)
         THEN rq' = [rq EXCEPT ![p] =
                      [Done("list_bookings", "repo", q.filter.service_id, <<>>,
                            "http400", <<>>, 0) EXCEPT !.q = q]]
         ELSE rq' = [rq EXCEPT ![p] =
                      [op |-> "list_bookings", pc |-> "find", via |-> "repo",
                       id |-> "", data |-> <<>>, q |-> q, ret |-> "", body |-> <<>>,
                       total |-> CountDocuments(bookings, BookingFilter(q.filter)),
                       calls |-> 1]]
    /\ UNCHANGED <<phase, nameIndex, ensured, services, bookings, now, nextId>>

list_bookings_find(p) ==
    /\ phase = "serving"
    /\ rq[p].op = "list_bookings" /\ rq[p].pc = "find"
    /\ LET q == rq[p].q
       IN \E page \in Find(bookings, BookingFilter(q.filter), q.sort_by,
                           q.sort_direction, q.skip, q.limit) :
            rq' = [rq EXCEPT ![p] =
                    [@ EXCEPT !.pc = "done", !.ret = "list", !.calls = @ + 1,
                       !.body = [i \in 1..Len(page) |->
                                    BookingFromMongo(page[i], now)]]]
    /\ UNCHANGED <<phase, nameIndex, ensured, services, bookings, now, nextId>>

\* get_bookings_by_service up to count_documents.
get_bookings_by_service_count(p, id, k, n) ==
    /\ Ready(p)
    /\   IF ~IsValidOid(id)
         THEN rq' = [rq EXCEPT ![p] =
                      Done("get_bookings_by_service", "route", id, <<>>,
                           "http400", <<>>, 0)]
         ELSE rq' = [rq EXCEPT ![p] =
                      [op |-> "get_bookings_by_service", pc |-> "find",
                       via |-> "route", id |-> id, data |-> <<>>,
                       q |-> [skip |-> k, limit |-> n], ret |-> "", body |-> <<>>,
                       total |-> CountDocuments(bookings,
                           [f \in {"service_id"} |->
                               [op |-> "eq", v |-> ParseOid(id)]]),
                       calls |-> 1]]
    /\ UNCHANGED <<phase, nameIndex, ensured, services, bookings, now, nextId>>

\* find({"service_id": object_id}).sort("date", 1).skip(skip).limit(limit)
get_bookings_by_service_find(p) ==
    /\ phase = "serving"
    /\ rq[p].op = "get_bookings_by_service" /\ rq[p].pc = "find"
    /\ LET q == rq[p].q
       IN \E page \in Find(bookings,
                           [f \in {"service_id"} |->
                               [op |-> "eq", v |-> ParseOid(rq[p].id)]],
                           "date", 1, q.skip, q.limit) :
            rq' = [rq EXCEPT ![p] =
                    [@ EXCEPT !.pc = "done", !.ret = "list", !.calls = @ + 1,
                       !.body = [i \in 1..Len(page) |->
                                    BookingFromMongo(page[i], now)]]]
    /\ UNCHANGED <<phase, nameIndex, ensured, services, bookings, now, nextId>>

\* The fields of BookingUpdate, in the order the schema declares them.
BookingUpdateFields == <<"customer_name", "date", "service_id", "status">>

\* The bodies clients send to PUT /bookings/{id}.
BookingUpdatePayloads ==
    { <<>>,
      [k \in {"status"} |-> "canceled"],
      [k \in {"customer_name", "status"} |->
          IF k = "status" THEN "confirmed" ELSE "Bob"] }

\* The dictionaries callers of the repository pass to update_booking.
BookingUpdateData ==
    { [k \in {"user_id", "status"} |-> IF k = "status" THEN "confirmed" ELSE "Bob"] }

BookingStatus == {"pending", "confirmed", "canceled", "completed"}

\* update_booking up to its first store call, the get_booking of the current
\* document.
BookingUpdateBegin(p, via, id, data) ==
    /\ bookings' = bookings
    /\ IF ~IsValidOid(id)
       THEN rq' = [rq EXCEPT ![p] =
                    Done("update_booking", via, id, data, "http400", <<>>, 0)]
       ELSE LET current_booking == GetBooking(bookings, id, now)
            IN IF current_booking.ret # "entity"
               THEN rq' = [rq EXCEPT ![p] =
                            Done("update_booking", via, id, data,
                                 current_booking.ret, <<>>, 1)]
               ELSE rq' = [rq EXCEPT ![p] =
                            [op |-> "update_booking", pc |-> "stamp", via |-> via,
                             id |-> id, data |-> data, q |-> <<>>, ret |-> "",
                             body |-> <<>>, total |-> 0, calls |-> 1]]

\* A caller of the repository updates a booking.
update_booking(p, id, data) ==
    /\ Ready(p)
    /\ BookingUpdateBegin(p, "repo", id, data)
    /\ UNCHANGED <<phase, nameIndex, ensured, services, now, nextId>>

\* PUT /bookings/{id}: the body is validated as a BookingUpdate.
route_update_booking(p, id, payload) ==
    /\ Ready(p)
    /\   IF UpdateSchemaValid(BookingUpdateFields, payload)
         THEN BookingUpdateBegin(p, "route", id, DropNone(payload))
         ELSE /\ bookings' = bookings
              /\ rq' = [rq EXCEPT ![p] =
                     Done("update_booking", "route", id, payload, "http422", <<>>, 0)]
    /\ UNCHANGED <<phase, nameIndex, ensured, services, now, nextId>>

\* PUT /bookings/{id}/status: the body is a BookingStatusUpdate, and the route
\* updates the status alone.
update_booking_status(p, id, status) ==
    /\ Ready(p)
    /\ BookingUpdateBegin(p, "status", id, [k \in {"status"} |-> status])
    /\ UNCHANGED <<phase, nameIndex, ensured, services, now, nextId>>

\* update_data["updated_at"] = datetime.utcnow()
update_booking_stamp(p) ==
    /\ phase = "serving"
    /\ rq[p].op = "update_booking" /\ rq[p].pc = "stamp"
    /\ rq' = [rq EXCEPT ![p] =
               [@ EXCEPT !.pc = "write",
                  !.data = SetFields(@, [k \in {"updated_at"} |-> UtcNowNaive(now)])]]
    /\ UNCHANGED <<phase, nameIndex, ensured, services, bookings, now, nextId>>

\* update_one({"_id": object_id}, {"$set": update_data})
update_booking_write(p) ==
    /\ phase = "serving"
    /\ rq[p].op = "update_booking" /\ rq[p].pc = "write"
    /\ LET r == rq[p]
           object_id == ParseOid(r.id)
       IN /\ bookings' = UpdateOne(bookings, object_id, r.data)
          /\ IF ModifiedCount(bookings, object_id, r.data) = 0
             THEN rq' = [rq EXCEPT ![p] =
                          Done(r.op, r.via, r.id, r.data, "none", <<>>, r.calls + 1)]
             ELSE rq' = [rq EXCEPT ![p] = [@ EXCEPT !.pc = "reread", !.calls = @ + 1]]
    /\ UNCHANGED <<phase, nameIndex, ensured, services, now, nextId>>

\* return await self.get_booking(booking_id)
update_booking_reread(p) ==
    /\ phase = "serving"
    /\ rq[p].op = "update_booking" /\ rq[p].pc = "reread"
    /\ LET r == rq[p]
           got == GetBooking(bookings, r.id, now)
       IN rq' = [rq EXCEPT ![p] = Done(r.op, r.via, r.id, r.data, got.ret, got.body,
                                           r.calls + got.calls)]
    /\ UNCHANGED <<phase, nameIndex, ensured, services, bookings, now, nextId>>

\* ------------------------------------------------------- POST /bookings
\* BookingBase.validate_booking_date: value < datetime.utcnow().  utcnow() is
\* naive, and Python raises TypeError when a naive and an aware datetime are
\* ordered.
validate_booking_date(value, t) ==
    IF value.aware THEN "TypeError"
    ELSE IF value.ms < t THEN "ValueError"
    ELSE "ok"

\* BookingCreate.validate_status_on_create
validate_status_on_create(value) ==
    IF value \notin {"pending", "confirmed"} THEN "ValueError" ELSE "ok"

\* Validation of a body as a BookingCreate: the validator of date runs before
\* that of status; a ValueError becomes an error of the ValidationError that
\* is answered 422, any other exception leaves the validation at once.  The
\* validator of status runs only for a status the body supplies.
BookingCreateValidate(payload, t) ==
    LET date == validate_booking_date(payload["date"], t)
        status == IF "status" \in DOMAIN payload
                  THEN validate_status_on_create(payload["status"])
                  ELSE "ok"
    IN IF date = "TypeError" THEN "TypeError"
       ELSE IF date = "ValueError" \/ status = "ValueError" THEN "http422"
       ELSE "ok"

\* BookingCreate.model_dump(): the fields of the schema, status defaulted.
BookingCreateDump(payload) ==
    [k \in DOMAIN payload \cup {"status"} |->
        IF k \in DOMAIN payload THEN payload[k] ELSE "pending"]

\* The dates clients send: without and with a UTC offset, at the epoch of the
\* model's clock and after its end.
CreateDates == {UtcNowNaive(0), UtcNowNaive(10), UtcNowAware(0), UtcNowAware(10)}

\* The bodies clients send to POST /bookings; customer_name and service_id
\* are well-formed.
BookingCreatePayloads ==
    {[customer_name |-> "Alice", service_id |-> 1, date |-> d, status |-> st] :
        d \in CreateDates, st \in BookingStatus}
    \cup {[customer_name |-> "Alice", service_id |-> 1, date |-> UtcNowNaive(10)]}

\* POST /bookings: the body is validated as a BookingCreate, then the route
\* calls create_booking with model_dump().
route_create_booking(p, payload) ==
    LET valid == BookingCreateValidate(payload, now)
    IN IF valid = "ok"
       THEN create_booking(p, BookingCreateDump(payload))
       ELSE /\ Ready(p)
            /\ rq' = [rq EXCEPT ![p] =
                   Done("create_booking", "route", "", payload, valid, <<>>, 0)]
            /\ UNCHANGED <<phase, nameIndex, ensured, services, bookings, now, nextId>>

\* --------------------------------------------------------- specifications
Init ==
    /\ phase = "boot"
    /\ nameIndex = FALSE
    /\ ensured = [r \in Repositories |-> 0]
    /\ services = <<>>
    /\ bookings = <<>>
    /\ now = 0
    /\ nextId = 1
    /\ rq = [p \in Procs |-> Idle]

Startup == connect_to_mongodb \/ init_repositories

\* The requests of coroutine p that write the services collection.
ServiceWrites(p) ==
    \/ \E payload \in ServicePayloads : create_service(p, payload)
    \/ \E id \in IdInputs, data \in ServiceUpdateData : update_service(p, id, data)
    \/ \E id \in IdInputs, payload \in ServiceUpdatePayloads :
          route_update_service(p, id, payload)
    \/ update_service_stamp(p)
    \/ update_service_write(p)
    \/ update_service_reread(p)
    \/ \E id \in IdInputs : delete_service(p, id)

\* Services are created, updated and deleted, one request at a time, while
\* the clock runs.
NextServiceUpdates == Startup \/ Tick \/ ServiceWrites(1)

SpecServiceUpdates == Init /\ [][NextServiceUpdates]_vars

\* One customer's booking, in the shape the repository takes and in the shape
\* the route hands over.
TimedBookingPayloads ==
    {x \in BookingPayloads : "user_id" \in DOMAIN x => x["user_id"] = "Alice"}

\* The requests of coroutine p that write the bookings collection.  An update
\* ends in its first read, get_booking, which finds no booking under an
\* ObjectId: the steps after that read are never taken.
BookingWrites(p) ==
    \/ \E payload \in TimedBookingPayloads : create_booking(p, payload)
    \/ \E id \in IdInputs, payload \in BookingUpdatePayloads :
          route_update_booking(p, id, payload)
    \/ \E id \in IdInputs, status \in BookingStatus :
          update_booking_status(p, id, status)
    \/ \E id \in IdInputs : delete_booking(p, id)

\* Bookings are created, updated and deleted, one request at a time, while
\* the clock runs.
NextBookingUpdates == Startup \/ Tick \/ BookingWrites(1)

SpecBookingUpdates == Init /\ [][NextBookingUpdates]_vars

\* Renames that can collide with a stored name.
Renames == {[k \in {"name"} |-> n] : n \in {"Haircut", "Massage"}}

\* Coroutines create, rename and delete services concurrently.
ConcurrentServiceWrites(p) ==
    \/ \E payload \in ServicePayloads : create_service(p, payload)
    \/ \E id \in IdInputs, data \in Renames : update_service(p, id, data)
    \/ update_service_stamp(p)
    \/ update_service_write(p)
    \/ update_service_reread(p)
    \/ \E id \in IdInputs : delete_service(p, id)

NextConcurrentServices == Startup \/ \E p \in Procs : ConcurrentServiceWrites(p)

SpecConcurrentServices == Init /\ [][NextConcurrentServices]_vars

\* Bookings are created through the route and through the repository, and
\* read, one request at a time, while the clock runs.
BookingCreates(p) ==
    \/ \E payload \in BookingCreatePayloads : route_create_booking(p, payload)
    \/ \E payload \in TimedBookingPayloads : create_booking(p, payload)
    \/ \E id \in IdInputs : get_booking(p, id)

NextBookingCreates == Startup \/ Tick \/ BookingCreates(1)

SpecBookingCreates == Init /\ [][NextBookingCreates]_vars

\* --- the models alone: an entity is made a document and read back from it
\* The datetimes an entity may hold: naive or timezone-aware.
Timestamps == {[ms |-> t, aware |-> a] : t \in 0..MaxTime, a \in BOOLEAN}

\* Valid Service entities: the optional fields None or set.
ServiceEntities ==
    {[id |-> i, name |-> "Haircut", description |-> d, price |-> 2550,
      duration |-> 30, category |-> c, created_at |-> ca, updated_at |-> ua] :
        i \in 1..MaxIds, d \in {NONE, ""}, c \in {NONE, "spa"},
        ca \in Timestamps, ua \in Timestamps}

\* Valid Booking entities.
BookingEntities ==
    {[id |-> i, user_id |-> "Alice", service_id |-> sid, booking_time |-> bt,
      status |-> "pending", notes |-> NONE, created_at |-> ca, updated_at |-> ua] :
        i \in 1..MaxIds, sid \in 1..MaxIds,
        bt \in {UtcNowNaive(10), UtcNowAware(10)},
        ca \in Timestamps, ua \in Timestamps}

\* An entity of either model is held in memory: body[1].
InitModels ==
    /\ phase = "models"
    /\ nameIndex = FALSE
    /\ ensured = [r \in Repositories |-> 0]
    /\ services = <<>>
    /\ bookings = <<>>
    /\ now = 0
    /\ nextId = 1
    /\ \/ \E e \in ServiceEntities :
             rq = [p \in Procs |->
                     IF p = 1 THEN [Idle EXCEPT !.op = "Service", !.pc = "entity",
                                                !.body = <<e>>]
                     ELSE Idle]
       \/ \E e \in BookingEntities :
             rq = [p \in Procs |->
                     IF p = 1 THEN [Idle EXCEPT !.op = "Booking", !.pc = "entity",
                                                !.body = <<e>>]
                     ELSE Idle]

\* entity.to_mongo(): the document is kept in data.
to_mongo(p) ==
    /\ phase = "models"
    /\ rq[p].pc = "entity"
    /\ rq' = [rq EXCEPT ![p] =
               [@ EXCEPT !.pc = "document",
                  !.data = IF rq[p].op = "Service"
                           THEN ServiceToMongo(rq[p].body[1])
                           ELSE BookingToMongo(rq[p].body[1])]]
    /\ UNCHANGED <<phase, nameIndex, ensured, services, bookings, now, nextId>>

\* Model.from_mongo(document): the entity read back is kept as body[2].
from_mongo(p) ==
    /\ phase = "models"
    /\ rq[p].pc = "document"
    /\ rq' = [rq EXCEPT ![p] =
               [@ EXCEPT !.pc = "done",
                  !.body = Append(@, IF rq[p].op = "Service"
                                     THEN ServiceFromMongo(rq[p].data, now)
                                     ELSE BookingFromMongo(rq[p].data, now))]]
    /\ UNCHANGED <<phase, nameIndex, ensured, services, bookings, now, nextId>>

NextModels == to_mongo(1) \/ from_mongo(1)

SpecModels == InitModels /\ [][NextModels]_vars

\* A booking is moved to another time: update_data carries the timezone-aware
\* datetime the caller built, as the callers of create_booking do.
Reschedules == {[k \in {"booking_time"} |-> UtcNowAware(20)]}

\* Entities are created, updated through the repositories and read back, one
\* request at a time.
UpdateReadStep(p) ==
    \/ \E payload \in ServicePayloads : create_service(p, payload)
    \/ \E id \in IdInputs, data \in ServiceUpdateData : update_service(p, id, data)
    \/ update_service_stamp(p)
    \/ update_service_write(p)
    \/ update_service_reread(p)
    \/ \E id \in IdInputs : get_service(p, id)
    \/ \E payload \in TimedBookingPayloads : create_booking(p, payload)
    \/ \E id \in IdInputs, data \in BookingUpdateData \cup Reschedules :
          update_booking(p, id, data)
    \/ \E id \in IdInputs : get_booking(p, id)

NextUpdateReads == Startup \/ UpdateReadStep(1)

SpecUpdateReads == Init /\ [][NextUpdateReads]_vars

\* Requests on both collections, served one at a time, with the inputs that
\* tell the outcomes of a handler apart.  The clock stands still: what these
\* handlers answer does not depend on it (SpecServiceUpdates and
\* SpecBookingUpdates let it run).
CoreServiceListQueries == {q \in ServiceListQueries : q.sort_direction = 1}

CoreBookingPayloads == {x \in BookingPayloads : BookingValid(x)}

CoreBookingListQueries == {q \in BookingListQueries : q.filter.date_from = <<>>}

CoreStep(p) ==
    \/ \E payload \in ServicePayloads : create_service(p, payload)
    \/ \E id \in IdInputs : get_service(p, id)
    \/ \E q \in CoreServiceListQueries : list_services_count(p, q)
    \/ list_services_find(p)
    \/ \E id \in IdInputs : update_service(p, id, [k \in {"price"} |-> 3000])
    \/ \E id \in IdInputs : route_update_service(p, id, <<>>)
    \/ update_service_stamp(p)
    \/ update_service_write(p)
    \/ update_service_reread(p)
    \/ \E id \in IdInputs : delete_service(p, id)
    \/ \E payload \in CoreBookingPayloads : create_booking(p, payload)
    \/ \E id \in IdInputs : get_booking(p, id)
    \/ \E q \in CoreBookingListQueries : list_bookings_count(p, q)
    \/ list_bookings_find(p)
    \/ \E id \in IdInputs, k \in Skips, n \in Limits :
          get_bookings_by_service_count(p, id, k, n)
    \/ get_bookings_by_service_find(p)
    \/ \E id \in IdInputs : route_update_booking(p, id, <<>>)
    \/ \E id \in IdInputs : update_booking_status(p, id, "canceled")
    \/ \E id \in IdInputs : delete_booking(p, id)

Next == Startup \/ CoreStep(1)

Spec == Init /\ [][Next]_vars

\* list_bookings with a range of dates: date_from, date_to or both.
DateFilters ==
    {[status_filter |-> NONE, date_from |-> a, date_to |-> b, service_id |-> NONE] :
        a \in {<<>>, <<10>>, <<20>>}, b \in {<<>>, <<10>>, <<20>>}}
    \ {[status_filter |-> NONE, date_from |-> <<>>, date_to |-> <<>>,
        service_id |-> NONE]}

DateListQueries ==
    {[skip |-> k, limit |-> n, sort_by |-> "booking_time", sort_direction |-> 1,
      filter |-> f] :
        k \in Skips, n \in Limits, f \in DateFilters}

\* Bookings are created through the repository and listed by date, one
\* request at a time.
BookingDateStep(p) ==
    \/ \E payload \in CoreBookingPayloads : create_booking(p, payload)
    \/ \E q \in DateListQueries : list_bookings_count(p, q)
    \/ list_bookings_find(p)

NextBookingDates == Startup \/ BookingDateStep(1)

SpecBookingDates == Init /\ [][NextBookingDates]_vars

\* Updates of one field: two of them set the same field, the third a field
\* disjoint from it.
FieldUpdates ==
    { [k \in {"price"} |-> 3000], [k \in {"price"} |-> 4000],
      [k \in {"duration"} |-> 45] }

\* One service is created; coroutines update and delete it concurrently.
ConcurrentUpdateStep(p) ==
    \/ \E payload \in {x \in ServicePayloads : x.name = "Haircut"} :
          create_service(p, payload)
    \/ \E id \in IdInputs, data \in FieldUpdates : update_service(p, id, data)
    \/ update_service_stamp(p)
    \/ update_service_write(p)
    \/ update_service_reread(p)
    \/ \E id \in IdInputs : delete_service(p, id)

NextConcurrentUpdates == Startup \/ \E p \in Procs : ConcurrentUpdateStep(p)

SpecConcurrentUpdates == Init /\ [][NextConcurrentUpdates]_vars

\* The first page of a collection, unfiltered.
FirstPageOfServices ==
    {q \in ServiceListQueries :
        q.skip = 0 /\ q.limit = 2 /\ q.sort_direction = 1 /\ q.category = NONE}

FirstPageOfBookings ==
    {q \in BookingListQueries :
        /\ q.skip = 0 /\ q.limit = 2
        /\ q.filter = [status_filter |-> NONE, date_from |-> <<>>,
                       date_to |-> <<>>, service_id |-> NONE]}

\* Coroutines list a collection while others create and delete in it.
ConcurrentListStep(p) ==
    \/ \E payload \in ServicePayloads : create_service(p, payload)
    \/ \E id \in IdInputs : delete_service(p, id)
    \/ \E q \in FirstPageOfServices : list_services_count(p, q)
    \/ list_services_find(p)
    \/ \E payload \in TimedBookingPayloads : create_booking(p, payload)
    \/ \E id \in IdInputs : delete_booking(p, id)
    \/ \E q \in FirstPageOfBookings : list_bookings_count(p, q)
    \/ list_bookings_find(p)

NextConcurrentLists == Startup \/ \E p \in Procs : ConcurrentListStep(p)

SpecConcurrentLists == Init /\ [][NextConcurrentLists]_vars

\* ------------------------------------------------------------- properties
\* The fields of a Service that the client supplies.
UserFields == {"name", "description", "duration", "price", "category"}

\* The stored bookings whose identifier is spelled id: what create_booking
\* returned for them, rendered with str.
BookingKeys(id) == {i \in DOMAIN bookings : OidStr(i) = id}

\* C1: a get_service that directly follows a successful create_service, with
\* the id create_service returned, returns a Service whose name, description,
\* duration, price and category equal those of the creation payload.
C1_GetAfterCreate ==
    [][\A p \in Procs :
          (/\ rq[p].op = "create_service" /\ rq[p].ret = "entity"
           /\ rq'[p].op = "get_service"
           /\ get_service(p, OidStr(rq[p].body[1].id)))
          => /\ rq'[p].ret = "entity"
             /\ \A k \in UserFields : rq'[p].body[1][k] = rq[p].data[k]]_vars

\* A service created without a category, and with the empty description, has
\* been read back.
C1_Witness ==
    /\ rq[1].op = "get_service" /\ rq[1].ret = "entity"
    /\ rq[1].body[1].category = NONE
    /\ rq[1].body[1].description = ""

\* C2: create_service with the name of a stored service answers 409 and leaves
\* the services collection as it was: nothing inserted, nothing modified.
C2_DuplicateCreate ==
    [][\A p \in Procs :
          (/\ rq'[p].op = "create_service"
           /\ create_service(p, rq'[p].data)
           /\ \E i \in DOMAIN services : services[i]["name"] = rq'[p].data["name"])
          => /\ rq'[p].ret = "http409"
             /\ HttpStatus(rq'[p]) = 409
             /\ services' = services]_vars

\* A create has been refused for its name while the first service is stored.
C2_Witness ==
    /\ rq[1].op = "create_service" /\ rq[1].ret = "http409"
    /\ \E i \in DOMAIN services : services[i]["name"] = rq[1].data["name"]

\* No two stored services have the same name.
NamesUnique ==
    \A i, j \in DOMAIN services :
        i # j => services[i]["name"] # services[j]["name"]

\* C3: after startup, whatever create_service, update_service and
\* delete_service calls run and however their store calls interleave, no two
\* stored services have the same name; the write of an update_service that
\* would give a service the name of another stored service answers 409 and
\* changes nothing.
C3_NameUniqueness ==
    /\ [](phase = "serving" => NamesUnique)
    /\ [][\A p \in Procs :
             (/\ rq[p].op = "update_service" /\ rq[p].pc = "write"
              /\ update_service_write(p)
              /\ "name" \in DOMAIN rq[p].data
              /\ \E i, j \in DOMAIN services :
                    /\ i = ParseOid(rq[p].id) /\ j # i
                    /\ services[j]["name"] = rq[p].data["name"])
             => /\ rq'[p].ret = "http409"
                /\ services' = services]_vars

\* A rename to the name of another stored service has been refused.
C3_Witness ==
    \E p \in Procs :
        /\ rq[p].op = "update_service" /\ rq[p].ret = "http409"
        /\ Cardinality(DOMAIN services) = 2
        /\ ParseOid(rq[p].id) \in DOMAIN services
        /\ services[ParseOid(rq[p].id)]["name"] # rq[p].data["name"]

\* C4: get_service and get_booking, given a well-formed id that matches no
\* stored document, return None (404 at the route): no error is raised and no
\* entity is returned.
C4_GetNotFound ==
    \A p \in Procs :
        /\ (/\ rq[p].op = "get_service" /\ IsValidOid(rq[p].id)
            /\ ParseOid(rq[p].id) \notin DOMAIN services)
           => rq[p].ret = "none" /\ HttpStatus(rq[p]) = 404
        /\ (/\ rq[p].op = "get_booking" /\ IsValidOid(rq[p].id)
            /\ BookingKeys(rq[p].id) = {})
           => rq[p].ret = "none" /\ HttpStatus(rq[p]) = 404

\* The operations that take the id of a document.
IdOps == {"get_service", "update_service", "delete_service", "get_booking",
          "update_booking", "delete_booking", "get_bookings_by_service"}

\* The request r was given an id string that is no valid identifier.
InvalidIdGiven(r) ==
    \/ r.op \in IdOps /\ ~IsValidOid(r.id)
    \/ /\ r.op = "list_bookings"
       /\ r.q.filter.service_id # NONE
       /\ ~IsValidOid(r.q.filter.service_id)

\* C5: an id-taking operation (get, update, delete of either repository,
\* get_bookings_by_service, the service_id filter of list_bookings) that is
\* given a string that is no valid identifier answers 400 and makes no call
\* to the store.
C5_InvalidId ==
    \A p \in Procs :
        InvalidIdGiven(rq[p])
        => /\ rq[p].ret = "http400"
           /\ HttpStatus(rq[p]) = 400
           /\ rq[p].calls = 0

\* The stored services a category filter c selects: all of them when no
\* category is given.
ServicesOfCategory(c) ==
    {i \in DOMAIN services :
        c # NONE => ("category" \in DOMAIN services[i] /\ services[i]["category"] = c)}

\* The stored bookings the filters f select, by status and by service.
BookingsSelected(f) ==
    {i \in DOMAIN bookings :
        /\ f.status_filter # NONE => bookings[i]["status"] = f.status_filter
        /\ f.service_id # NONE => OidStr(bookings[i]["service_id"]) = f.service_id}

C7_CategoryFilter ==
    \A p \in Procs :
        (rq[p].op = "list_services" /\ rq[p].ret = "list" /\ rq[p].q.category # NONE)
        => /\ \A i \in 1..Len(rq[p].body) :
                  rq[p].body[i].category = rq[p].q.category
           /\ rq[p].total = Cardinality(ServicesOfCategory(rq[p].q.category))

\* C8: a delete of an id that matches no document answers not found (404) and
\* changes nothing; a delete of a stored id succeeds (204), removes that
\* document and leaves the others as they were; after it the id matches no
\* document, so that a second delete answers not found.
C8_Delete ==
    [][\A p \in Procs :
          LET id == rq'[p].id
          IN
          /\ (/\ rq'[p].op = "delete_service" /\ IsValidOid(id)
              /\ delete_service(p, id))
             => IF ParseOid(id) \in DOMAIN services
                THEN /\ rq'[p].ret = "true" /\ HttpStatus(rq'[p]) = 204
                     /\ DOMAIN services' = DOMAIN services \ {ParseOid(id)}
                     /\ \A i \in DOMAIN services' : services'[i] = services[i]
                ELSE /\ rq'[p].ret = "false" /\ HttpStatus(rq'[p]) = 404
                     /\ services' = services
          /\ (/\ rq'[p].op = "delete_booking" /\ IsValidOid(id)
              /\ delete_booking(p, id))
             => IF BookingKeys(id) # {}
                THEN /\ rq'[p].ret = "true" /\ HttpStatus(rq'[p]) = 204
                     /\ DOMAIN bookings' = DOMAIN bookings \ BookingKeys(id)
                     /\ \A i \in DOMAIN bookings' : bookings'[i] = bookings[i]
                ELSE /\ rq'[p].ret = "false" /\ HttpStatus(rq'[p]) = 404
                     /\ bookings' = bookings]_vars

\* The fields of a booking that a status update is not to touch.
BookingFrame == {"user_id", "service_id", "booking_time", "created_at"}

\* C9: a status-only update of a stored booking returns the booking with the
\* supplied status; id, customer, service, booking time and created_at are
\* as they were stored, the supplied status is stored, and updated_at is the
\* later time of the update.
C9_StatusOnlyUpdate ==
    \A p \in Procs :
        LET r == rq[p]
        IN (/\ r.op = "update_booking" /\ r.via = "status" /\ r.pc = "done"
            /\ BookingKeys(r.id) # {})
           => /\ r.ret = "entity"
              /\ OidStr(r.body[1].id) = r.id
              /\ \A i \in BookingKeys(r.id) :
                    /\ bookings[i]["status"] = r.data["status"]
                    /\ \A k \in BookingFrame :
                          BsonEncode(r.body[1])[k] = bookings[i][k]
                    /\ bookings[i]["updated_at"] = r.data["updated_at"].ms
                    /\ bookings[i]["updated_at"] > bookings[i]["created_at"]

\* C10: a PUT /services/{id} that supplies some of the fields of a stored
\* service and is not refused for a duplicate name stores the supplied values
\* in those fields (and leaves the id, created_at and the other fields as they
\* were).
C10_PutAppliesFields ==
    \A p \in Procs :
        LET r == rq[p]
        IN (/\ r.op = "update_service" /\ r.via = "route" /\ r.pc = "done"
            /\ r.ret # "http409"
            /\ DOMAIN r.data \ {"updated_at"} # {}
            /\ IsValidOid(r.id)
            /\ ParseOid(r.id) \in DOMAIN services)
           => \A k \in DOMAIN r.data \ {"updated_at"} :
                 services[ParseOid(r.id)][k] = r.data[k]

\* C11: update_service and update_booking, given a well-formed id that matches
\* no stored document, return None (404 at the route); no document is created
\* or changed.
C11_UpdateNotFound ==
    \A p \in Procs :
        /\ (/\ rq[p].op = "update_service" /\ rq[p].pc = "done"
            /\ IsValidOid(rq[p].id)
            /\ ParseOid(rq[p].id) \notin DOMAIN services)
           => rq[p].ret = "none" /\ HttpStatus(rq[p]) = 404
        /\ (/\ rq[p].op = "update_booking" /\ rq[p].pc = "done"
            /\ IsValidOid(rq[p].id)
            /\ BookingKeys(rq[p].id) = {})
           => rq[p].ret = "none" /\ HttpStatus(rq[p]) = 404

\* The operations that update an entity, and the get of the same repository.
UpdateOps == {"update_service", "update_booking"}

GetOf(op) == IF op = "update_service" THEN "get_service" ELSE "get_booking"

\* The fields the caller supplied to the update r (updated_at is the
\* repository's own).
Supplied(r) == DOMAIN r.data \ {"updated_at"}

BookingUserFields == {"user_id", "service_id", "booking_time", "status"}

\* C13: a booking returned by create_booking has an id, and a get_booking with
\* that id directly afterwards returns a booking whose user_id, service_id,
\* booking_time and status equal those supplied.
C13_GetAfterCreateBooking ==
    [][\A p \in Procs :
          /\ (rq'[p].op = "create_booking" /\ rq'[p].ret = "entity")
             => IsValidOid(OidStr(rq'[p].body[1].id))
          /\ (/\ rq[p].op = "create_booking" /\ rq[p].ret = "entity"
              /\ rq'[p].op = "get_booking"
              /\ rq'[p].id = OidStr(rq[p].body[1].id))
             => /\ rq'[p].ret = "entity"
                /\ \A k \in BookingUserFields :
                      rq'[p].body[1][k] = rq[p].data[k]]_vars

\* The finished request r listed the bookings of one service: through
\* get_bookings_by_service, or through list_bookings with a well-formed
\* service_id and no other filter.
ByService(r) ==
    /\ r.ret = "list"
    /\ \/ r.op = "get_bookings_by_service"
       \/ /\ r.op = "list_bookings"
          /\ IsValidOid(r.q.filter.service_id)
          /\ r.q.filter.status_filter = NONE
          /\ Len(r.q.filter.date_from) + Len(r.q.filter.date_to) = 0

ServiceAsked(r) ==
    IF r.op = "get_bookings_by_service" THEN r.id ELSE r.q.filter.service_id

BookingsOfService(s) ==
    {i \in DOMAIN bookings : OidStr(bookings[i]["service_id"]) = s}

\* C14: listing the bookings of service s returns bookings of s only, each
\* once, as many as skip and limit leave of them, and the returned count is
\* the number of stored bookings whose service_id is s.
C14_ByServiceFilter ==
    \A p \in Procs :
        ByService(rq[p]) =>
            LET of == BookingsOfService(ServiceAsked(rq[p]))
                n == Cardinality(of)
                body == rq[p].body
                left == IF n > rq[p].q.skip THEN n - rq[p].q.skip ELSE 0
            IN /\ rq[p].total = n
               /\ \A i \in 1..Len(body) :
                     /\ \E j \in of : PyObjectId(j) = body[i].id
                     /\ OidStr(body[i].service_id) = ServiceAsked(rq[p])
               /\ \A i, j \in 1..Len(body) : i # j => body[i].id # body[j].id
               /\ Len(body) = Min(rq[p].q.limit, left)

\* get_bookings_by_service has returned the one booking of its service while
\* a booking of another service is stored.
C14_Witness ==
    /\ rq[1].op = "get_bookings_by_service" /\ ByService(rq[1])
    /\ Len(rq[1].body) = 1 /\ rq[1].total = 1
    /\ Cardinality(DOMAIN bookings) = 2

\* The update r came through a PUT route with a body that supplies no field:
\* every field is absent or null.
NoFieldSupplied(r) ==
    /\ r.op \in UpdateOps /\ r.via = "route"
    /\ \A k \in Supplied(r) : IsNoneField(r.data, k)

\* C15: a PUT whose body supplies no field is answered 422 at once, and
\* neither collection changes, updated_at included.
C15_ZeroFieldUpdate ==
    [][\A p \in Procs :
          (rq'[p] # rq[p] /\ NoFieldSupplied(rq'[p]))
          => /\ rq'[p].pc = "done" /\ rq'[p].ret = "http422"
             /\ UNCHANGED <<services, bookings>>]_vars

\* The step finishes a POST /bookings of coroutine p.
PostBooking(p) ==
    /\ rq'[p] # rq[p]
    /\ rq'[p].op = "create_booking"
    /\ "customer_name" \in DOMAIN rq'[p].data

\* C16: POST /bookings with the status canceled or completed is answered 422
\* and stores no booking; with the status pending or confirmed it is not
\* answered 422 unless the date is in the past.
C16_StatusOnCreate ==
    [][\A p \in Procs :
          PostBooking(p) =>
             LET data == rq'[p].data
                 st == IF "status" \in DOMAIN data THEN data["status"] ELSE "pending"
             IN /\ st \in {"canceled", "completed"}
                   => /\ rq'[p].ret = "http422"
                      /\ bookings' = bookings
                /\ (/\ st \in {"pending", "confirmed"}
                    /\ data["date"].ms >= now)
                   => rq'[p].ret # "http422"]_vars

\* C17: a status update of a stored booking succeeds whatever the current and
\* the new status are, the same status included: it returns the booking with
\* the new status, and the new status is stored.
C17_StatusTransitions ==
    \A p \in Procs :
        LET r == rq[p]
        IN (/\ r.op = "update_booking" /\ r.via = "status" /\ r.pc = "done"
            /\ BookingKeys(r.id) # {})
           => /\ r.ret = "entity"
              /\ r.body[1].status = r.data["status"]
              /\ \A i \in BookingKeys(r.id) :
                    bookings[i]["status"] = r.data["status"]

\* C18: POST /bookings with a date earlier than the current time is answered
\* 422 and stores no booking.
C18_PastDateOnCreate ==
    [][\A p \in Procs :
          (PostBooking(p) /\ rq'[p].data["date"].ms < now)
          => /\ rq'[p].ret = "http422"
             /\ bookings' = bookings]_vars

\* The entity e with its timestamps made timezone-aware, the instants kept.
WithAwareTimestamps(e) ==
    [k \in DOMAIN e |->
        IF k \in DateKeys THEN [ms |-> e[k].ms, aware |-> TRUE] ELSE e[k]]

\* C19 (as the code has it): from_mongo(to_mongo(e)) has the id and every
\* field of e, an optional field that is None included; a timestamp comes
\* back as the same instant and timezone-aware, so it is the timestamp of e
\* only when that one was timezone-aware.
C19_RoundTrip ==
    \A p \in Procs :
        (rq[p].op \in {"Service", "Booking"} /\ rq[p].pc = "done")
        => rq[p].body[2] = WithAwareTimestamps(rq[p].body[1])

\* A service without category, created at a naive time and updated at an
\* aware one, has made the round trip.
C19_Witness ==
    /\ rq[1].op = "Service" /\ rq[1].pc = "done"
    /\ rq[1].body[1].category = NONE
    /\ ~rq[1].body[1].created_at.aware
    /\ rq[1].body[1].updated_at.aware

\* C19 (as the spec has it): from_mongo(to_mongo(e)) equals e field for
\* field, whether the timestamps of e are naive or timezone-aware.
C19_RoundTripEqual ==
    \A p \in Procs :
        (rq[p].op \in {"Service", "Booking"} /\ rq[p].pc = "done")
        => rq[p].body[2] = rq[p].body[1]

\* C20: the document to_mongo yields holds the identifier under "_id" as an
\* ObjectId, never as a string, and the service_id of a booking as an
\* ObjectId.
C20_NativeIds ==
    \A p \in Procs :
        (rq[p].op \in {"Service", "Booking"} /\ rq[p].pc = "document")
        => /\ "_id" \in DOMAIN rq[p].data
           /\ "id" \notin DOMAIN rq[p].data
           /\ IsObjectId(rq[p].data["_id"])
           /\ rq[p].op = "Booking" => IsObjectId(rq[p].data["service_id"])

\* The stored bookings whose booking time lies in the range the filters f
\* give, both bounds inclusive.
BookingsInRange(f) ==
    {i \in DOMAIN bookings :
        /\ \A k \in 1..Len(f.date_from) : f.date_from[k] <= bookings[i]["booking_time"]
        /\ \A k \in 1..Len(f.date_to) : bookings[i]["booking_time"] <= f.date_to[k]}

\* C21: list_bookings with date_from = a and/or date_to = b counts exactly the
\* stored bookings whose booking time t satisfies a <= t and t <= b, and
\* returns them up to the limit: the page after skip holds
\* min(limit, count - skip) bookings, each of them in the range.
C21_DateRange ==
    \A p \in Procs :
        (/\ rq[p].op = "list_bookings" /\ rq[p].ret = "list"
         /\ Len(rq[p].q.filter.date_from) + Len(rq[p].q.filter.date_to) > 0)
        => LET inRange == BookingsInRange(rq[p].q.filter)
               n == Cardinality(inRange)
               rest == IF n > rq[p].q.skip THEN n - rq[p].q.skip ELSE 0
           IN /\ rq[p].total = n
              /\ Len(rq[p].body) = Min(rq[p].q.limit, rest)
              /\ \A i \in 1..Len(rq[p].body) :
                    \E j \in inRange : OidStr(j) = OidStr(rq[p].body[i].id)

\* C22: ensure_indexes of each repository, ServiceRepository and
\* BookingRepository, runs exactly once during startup: never before the store
\* is connected, never more than once, and each has run once when a request
\* has been handled.
C22_IndexesEnsuredOnce ==
    /\ \A r \in Repositories : ensured[r] <= 1
    /\ phase = "boot" => \A r \in Repositories : ensured[r] = 0
    /\ (\E p \in Procs : rq[p].op # "idle")
       => \A r \in Repositories : ensured[r] = 1

\* An update that has made its first read and not yet returned.
UpdateInFlight(r) ==
    r.op \in UpdateOps /\ r.pc \in {"stamp", "write", "reread"}

\* The fields two updates both set, the stamp aside.
SharedFields(a, b) == (DOMAIN a \cap DOMAIN b) \ {"updated_at"}

\* Coroutine p makes the store write of its update in this step.
WriteStep(p) ==
    /\ rq[p].op = "update_service" /\ rq[p].pc = "write"
    /\ rq'[p] # rq[p]

\* C23: when an update makes its store write on an existing service while
\* another update of the same service that sets a field in common is in
\* flight, the write is not rejected and the stored document then carries
\* the values this update supplied; a stored service is changed by nothing
\* but the store write of an update, so that the value of the last write stays.
C23_LastWriteWins ==
    [][/\ \A p \in Procs :
            (/\ WriteStep(p)
             /\ ParseOid(rq[p].id) \in DOMAIN services
             /\ \E o \in Procs \ {p} :
                   /\ UpdateInFlight(rq[o]) /\ rq[o].id = rq[p].id
                   /\ SharedFields(rq[o].data, rq[p].data) # {})
            => /\ rq'[p].pc = "reread"
               /\ \A k \in DOMAIN rq[p].data \ {"updated_at"} :
                     services'[ParseOid(rq[p].id)][k] = rq[p].data[k]
       /\ \A i \in DOMAIN services \cap DOMAIN services' :
            services'[i] # services[i]
            => \E p \in Procs : WriteStep(p) /\ ParseOid(rq[p].id) = i
      ]_vars

\* C24: the reference from a booking to a service is not enforced.  A
\* create_booking whose data has the required fields succeeds and stores the
\* booking when its service_id matches no stored service, and delete_service
\* leaves the bookings collection as it is, whatever bookings refer to the
\* deleted service.
C24_UnenforcedReference ==
    [][\A p \in Procs :
         /\ (/\ rq'[p].op = "create_booking" /\ nextId' # nextId
             /\ BookingRequired \subseteq DOMAIN rq'[p].data
             /\ rq'[p].data["service_id"] \notin DOMAIN services)
            => /\ rq'[p].ret = "entity"
               /\ \E i \in DOMAIN bookings' \ DOMAIN bookings :
                     bookings'[i]["service_id"] = rq'[p].data["service_id"]
         /\ (rq'[p].op = "delete_service" /\ rq'[p] # rq[p])
            => bookings' = bookings
      ]_vars

\* A service has been deleted, and a booking that refers to it is stored.
C24_Witness ==
    /\ rq[1].op = "delete_service" /\ rq[1].ret = "true"
    /\ \E i \in DOMAIN bookings : OidStr(bookings[i]["service_id"]) = rq[1].id
    /\ \A i \in DOMAIN services : OidStr(i) # rq[1].id

\* C25: the body of a PUT that supplies at least one field with a valid value
\* that is not null passes the validation of the update schema: the request
\* is not answered 422, whichever field is the one supplied.
C25_OneFieldPasses ==
    \A p \in Procs :
        (/\ rq[p].op \in UpdateOps /\ rq[p].via = "route"
         /\ \E k \in DOMAIN rq[p].data :
               k # "updated_at" /\ ~IsNoneField(rq[p].data, k))
        => rq[p].ret # "http422"

\* The stored services whose identifier is spelled id.
ServiceKeys(id) == {i \in DOMAIN services : OidStr(i) = id}

\* C26: of the delete calls on one id, exactly one returns true.  Step by
\* step: a delete on an id under which a document is stored returns true and
\* removes exactly one document, and a delete on an id under which none is
\* stored (any longer) returns false and removes nothing.
C26_DeleteOnce ==
    [][\A p \in Procs :
         (/\ rq'[p].op \in {"delete_service", "delete_booking"}
          /\ rq'[p] # rq[p]
          /\ IsValidOid(rq'[p].id))
         => LET ofServices == rq'[p].op = "delete_service"
                stored == IF ofServices THEN ServiceKeys(rq'[p].id)
                          ELSE BookingKeys(rq'[p].id)
                removed == IF ofServices THEN DOMAIN services \ DOMAIN services'
                           ELSE DOMAIN bookings \ DOMAIN bookings'
            IN /\ rq'[p].ret = IF stored # {} THEN "true" ELSE "false"
               /\ removed = stored
               /\ Cardinality(removed) <= 1
      ]_vars

\* C27: update never creates a document.  No step of an update adds a
\* document to either collection; and when a delete has removed the document
\* of an id and an update of that id has returned, whether the delete came
\* before the update's first read, between its read and its write or between
\* its write and its re-read, no document is stored under that id.
C27_UpdateNeverCreates ==
    /\ [](\A p, o \in Procs :
            (/\ rq[o].op = "delete_service" /\ rq[o].ret = "true"
             /\ rq[p].op = "update_service" /\ rq[p].pc = "done"
             /\ rq[p].id = rq[o].id)
            => ServiceKeys(rq[o].id) = {})
    /\ [][\A p \in Procs :
            (rq'[p].op \in UpdateOps /\ rq'[p] # rq[p])
            => /\ DOMAIN services' \subseteq DOMAIN services
               /\ DOMAIN bookings' \subseteq DOMAIN bookings
         ]_vars

\* An update has returned not found from its re-read: its write changed the
\* document, and a delete removed it before the re-read.
C27_Witness ==
    /\ rq[1].op = "update_service" /\ rq[1].ret = "none" /\ rq[1].calls = 3
    /\ rq[2].op = "delete_service" /\ rq[2].ret = "true"
    /\ rq[2].id = rq[1].id
    /\ ServiceKeys(rq[1].id) = {}

\* C28: an update on an id whose document is stored for the whole duration
\* of the call does not return the not-found outcome.  Requests are served
\* one at a time here, so the document of a finished update was stored
\* throughout the call exactly if it is stored now.
C28_FoundWhileStored ==
    \A p \in Procs :
        (/\ rq[p].op \in UpdateOps /\ rq[p].pc = "done"
         /\ IsValidOid(rq[p].id)
         /\ IF rq[p].op = "update_service" THEN ServiceKeys(rq[p].id) # {}
            ELSE BookingKeys(rq[p].id) # {})
        => rq[p].ret # "none"

\* C29: when an update makes its store write on an existing service while
\* another update of the same service that sets other fields only is in
\* flight, the stored document then carries the values this update supplied
\* and keeps every field this update did not supply as it was, the fields
\* the other update has written among them; a stored service is changed by
\* nothing but the store write of an update.
C29_DisjointFieldsKept ==
    [][/\ \A p \in Procs :
            (/\ WriteStep(p)
             /\ ParseOid(rq[p].id) \in DOMAIN services
             /\ \E o \in Procs \ {p} :
                   /\ UpdateInFlight(rq[o]) /\ rq[o].id = rq[p].id
                   /\ SharedFields(rq[o].data, rq[p].data) = {})
            => LET oid == ParseOid(rq[p].id)
               IN /\ oid \in DOMAIN services'
                  /\ DOMAIN services'[oid]
                       = DOMAIN services[oid] \cup DOMAIN rq[p].data
                  /\ \A k \in DOMAIN rq[p].data \ {"updated_at"} :
                        services'[oid][k] = rq[p].data[k]
                  /\ \A k \in DOMAIN services[oid] \ DOMAIN rq[p].data :
                        services'[oid][k] = services[oid][k]
       /\ \A i \in DOMAIN services \cap DOMAIN services' :
            services'[i] # services[i] => \E p \in Procs : WriteStep(p)
      ]_vars

\* Two updates of one service are in flight, one has written its price and
\* the other its duration, and the stored service carries both.
C29_Witness ==
    /\ rq[1].op = "update_service" /\ rq[1].pc = "reread"
    /\ rq[2].op = "update_service" /\ rq[2].pc = "reread"
    /\ rq[1].id = rq[2].id
    /\ "price" \in DOMAIN rq[1].data /\ "duration" \in DOMAIN rq[2].data
    /\ \E i \in ServiceKeys(rq[1].id) :
          /\ services[i]["price"] = rq[1].data["price"]
          /\ services[i]["duration"] = rq[2].data["duration"]

\* C30: a list call returns no more items than the total it returns with
\* them, also when other coroutines create and delete documents of the
\* collection while the list call runs.
C30_ItemsWithinTotal ==
    \A p \in Procs :
        rq[p].ret = "list" => Len(rq[p].body) <= rq[p].total

====
